---- MODULE Spec2Model ----
(***************************************************************************)
(* Node Gateway of the sentinel VPS controller: the WebSocket connection   *)
(* registry and heartbeat sweep (websocket/server.js), the inbound frame   *)
(* handlers (websocket/handlers.js) and the command correlation engine     *)
(* (services/command-service.js).                                          *)
(*                                                                         *)
(* Node.js runs every callback to completion, so one action is one         *)
(* synchronous run of a callback: from its start, or from the resumption   *)
(* of an `await`, to the next `await` or to its end.  An awaited store     *)
(* operation takes effect in the step that resumes the awaiting code; an   *)
(* operation whose result the code does not use is put with the           *)
(* operations in flight and applied by a later step: the updates of the    *)
(* Node collection in the order of their issue.                            *)
(***************************************************************************)
EXTENDS Naturals, Integers, Sequences, FiniteSets, TLC

\* ---------------------------------------------------------------- bounds
Nodes == {"n1", "n2"}
MaxConns == 2
MaxCmdConns == 1
MaxTime == 4
MaxNodeOps == 3
MaxCalls == 2
MaxInFlight == 1
MaxDestroyed == 1
MaxDropped == 1
MaxRegisters == 1
MaxFrameConns == 1
MaxBroadcasts == 1
MaxFrames == 3
Payloads == {"p1", "p2"}

\* Time is counted in sweep periods (config.websocket.heartbeatInterval,
\* 30000 ms): the heartbeat timeout of 60000 ms is two periods.
heartbeatInterval == 1
heartbeatTimeout == 2

CommandIds == 1..MaxCalls

VARIABLES
    now,               \* Date.now()
    sweepDue,          \* the setInterval timer of the sweep has elapsed and its callback has not run yet
    sockets,           \* the ws objects created by successful upgrades, by handle
    outbox,            \* the frames written to each ws, in order
    connectedNodes,    \* server.js: const connectedNodes = new Map()
    nodeDb,            \* the Node collection: one record per nodeId
    nodeOps,           \* Node.findOneAndUpdate operations in flight, oldest first
    timeoutLog,        \* the sweep's console.warn lines: [nodeId, lastSeen]
    commands,          \* the Command collection, by commandId
    cmdOps,            \* Command.findOneAndUpdate (timeout) operations in flight
    calls,             \* the invocations of sendCommand, by commandId
    timers,            \* the setTimeout timer of each awaited command
    commandCallbacks,  \* command-service.js: const commandCallbacks = new Map()
    responses,         \* command_response handlers suspended at an await
    broadcast,         \* the invocation of broadcastCommand
    destroyed,         \* the raw sockets destroyed by the upgrade handler
    dropLog,           \* the message handler's lines for frames it dropped
    registrations,     \* the register handlers: suspended at the await, or returned
    inbox,             \* the frames agents have sent that no message event has delivered yet
    dispatchLog        \* the handler invocations of the message handler, in order

vars == <<now, sweepDue, sockets, outbox, connectedNodes, nodeDb, nodeOps, timeoutLog, commands, cmdOps, calls, timers, commandCallbacks, responses, broadcast, destroyed, dropLog, registrations, inbox, dispatchLog>>

regVars == <<sockets, outbox, connectedNodes, nodeDb, nodeOps, timeoutLog>>
cmdVars == <<commands, cmdOps, calls, timers, commandCallbacks, responses>>
wireVars == <<inbox, dispatchLog>>
frameVars == <<destroyed, dropLog, registrations, wireVars>>

\* ------------------------------------------------- the Map connectedNodes
\* A JavaScript Map keeps its entries in insertion order; it is modelled as
\* the sequence of its entries [nodeId, ws, lastSeen].

Has(m, n) == \E i \in 1..Len(m) : m[i].nodeId = n

IndexOf(m, n) == CHOOSE i \in 1..Len(m) : m[i].nodeId = n

MapGet(m, n) == m[IndexOf(m, n)]

MapSetAppend(m, n, e) == Append(m, e)

MapSet(m, n, e) == IF Has(m, n) THEN [m EXCEPT ![IndexOf(m, n)] = e] ELSE Append(m, e)

MapDeleteKept(m, n) == m

MapDelete(m, n) == SelectSeq(m, LAMBDA e : e.nodeId # n)

Handles == 1..Len(sockets)

readyState(h) == sockets[h].readyState

\* exports.isNodeConnected
isNodeConnected(n) == Has(connectedNodes, n) /\ readyState(MapGet(connectedNodes, n).ws) = "OPEN"

\* exports.getConnectedNodes: one element per entry of the Map
getConnectedNodes == [i \in 1..Len(connectedNodes) |-> [nodeId |-> connectedNodes[i].nodeId, lastSeen |-> connectedNodes[i].lastSeen, connected |-> readyState(connectedNodes[i].ws) = "OPEN"]]

\* ------------------------------------------------------------ the stores
NoNode == [status |-> "none", lastSeen |-> 0]

\* reply is the ws whose register handler awaits the update, 0 when the
\* issuing code does not use the result.
NodeUpdate(n, status, lastSeen, upsert) == [nodeId |-> n, status |-> status, lastSeen |-> lastSeen, upsert |-> upsert, reply |-> 0]

NoCommand == [status |-> "none", nodeId |-> "", completed |-> FALSE, result |-> "", error |-> ""]

IdleCall == [pc |-> "idle", nodeId |-> "", wait |-> FALSE, outcome |-> "none", value |-> "", settles |-> 0]

\* broadcastCommand before it is invoked: members are the commandIds of the
\* sendCommand calls it made, result is the object it returned.
IdleBroadcast == [pc |-> "idle", members |-> <<>>, result |-> [none |-> TRUE]]

Init ==
    /\ now = 0
    /\ sweepDue = FALSE
    /\ sockets = <<>>
    /\ outbox = <<>>
    /\ connectedNodes = <<>>
    /\ nodeDb = [n \in Nodes |-> NoNode]
    /\ nodeOps = <<>>
    /\ timeoutLog = {}
    /\ commands = [c \in CommandIds |-> NoCommand]
    /\ cmdOps = {}
    /\ calls = [c \in CommandIds |-> IdleCall]
    /\ timers = [c \in CommandIds |-> "none"]
    /\ commandCallbacks = {}
    /\ responses = {}
    /\ broadcast = IdleBroadcast
    /\ destroyed = 0
    /\ dropLog = <<>>
    /\ registrations = {}
    /\ inbox = <<>>
    /\ dispatchLog = <<>>

\* ------------------------------------------------------------- the clock
Tick ==
    /\ now < MaxTime
    /\ now' = now + 1
    /\ UNCHANGED <<sweepDue, regVars, cmdVars, frameVars, broadcast>>

\* setInterval(..., config.websocket.heartbeatInterval) keeping its schedule:
\* the clock does not pass an instant at which the timer has elapsed before
\* the callback has run, and the timer elapses at every multiple of the
\* interval.
IntervalElapses ==
    /\ ~sweepDue
    /\ now < MaxTime
    /\ now' = now + 1
    /\ sweepDue' = ((now + 1) % heartbeatInterval = 0)
    /\ UNCHANGED <<regVars, cmdVars, frameVars, broadcast>>

\* ------------------------------------------ wss.on('connection', ...)
InitialFramesNone == <<>>

\* Lines 126-129: the ping written at the end of the connection handler
InitialFrames == <<[type |-> "ping", commandId |-> 0]>>

\* A successful authenticated upgrade for nodeId n: the entry is installed
\* (or replaced), the NodeRecord update is issued and the ping is written.
Connect(n) ==
    /\ Len(sockets) < MaxConns
    /\ Len(nodeOps) < MaxNodeOps
    /\ LET h == Len(sockets) + 1 IN
        /\ sockets' = Append(sockets, [nodeId |-> n, readyState |-> "OPEN", closeCode |-> 0])
        /\ connectedNodes' = MapSet(connectedNodes, n, [nodeId |-> n, ws |-> h, lastSeen |-> now])
        /\ nodeOps' = Append(nodeOps, NodeUpdate(n, "online", now, TRUE))
        /\ outbox' = Append(outbox, InitialFrames)
    /\ UNCHANGED <<now, sweepDue, frameVars, broadcast, nodeDb, timeoutLog, cmdVars>>

\* ------------------------------------------ server.on('upgrade', ...)
\* An upgrade request is its path (on the WebSocket path or not), the node
\* identifier it carries in the x-node-id header or in the URL (NoId when it
\* carries none) and its x-node-secret header ("" when absent).
NoId == ""

\* config.security.nodeSecret
nodeSecret == "secret"

Secrets == {"", "wrong", nodeSecret}

UpgradeAllowedAnySecret(pathOk, n, secret) == pathOk /\ n # NoId

\* Lines 25-50: the path, the identifier and the secret are checked.
UpgradeAllowed(pathOk, n, secret) == pathOk /\ n # NoId /\ secret # "" /\ secret = nodeSecret

\* Lines 21-59: wss.handleUpgrade and the connection handler for a request
\* that passes the checks, socket.destroy() for any other.
Upgrade(pathOk, n, secret) ==
    \/ /\ UpgradeAllowed(pathOk, n, secret)
       /\ Connect(n)
    \/ /\ ~UpgradeAllowed(pathOk, n, secret)
       /\ destroyed < MaxDestroyed
       /\ destroyed' = destroyed + 1
       /\ UNCHANGED <<now, sweepDue, wireVars, regVars, cmdVars, broadcast, dropLog, registrations>>

\* ------------------------------------------------ ws.on('message', ...)
\* connectedNodes.get(nodeId); if (node) node.lastSeen = Date.now()
Touch(m, n) == IF Has(m, n) THEN [m EXCEPT ![IndexOf(m, n)].lastSeen = now] ELSE m

Receiving(h) == h \in Handles /\ readyState(h) \in {"OPEN", "CLOSING"}

\* heartbeat and status frames: the touch, then the handler's
\* Node.findOneAndUpdate({status: 'online', lastSeen: new Date()}, upsert)
RecvHeartbeat(h) ==
    /\ Receiving(h)
    /\ Len(nodeOps) < MaxNodeOps
    /\ connectedNodes' = Touch(connectedNodes, sockets[h].nodeId)
    /\ nodeOps' = Append(nodeOps, NodeUpdate(sockets[h].nodeId, "online", now, TRUE))
    /\ UNCHANGED <<now, sweepDue, frameVars, broadcast, sockets, outbox, nodeDb, timeoutLog, cmdVars>>

\* pong frames: the touch only
RecvPong(h) ==
    /\ Receiving(h)
    /\ connectedNodes' = Touch(connectedNodes, sockets[h].nodeId)
    /\ UNCHANGED <<now, sweepDue, frameVars, broadcast, sockets, outbox, nodeDb, nodeOps, timeoutLog, cmdVars>>

\* ---- the frames on the wire
\* The ws library emits one message event per frame, in the order the agent
\* sent them on the connection.  A frame in flight is [ws, id, type]: id is
\* its position among the frames the agent sent on that ws.
FramesOf(log, h) == SelectSeq(log, LAMBDA f : f.ws = h)

\* The agent of ws h sends a heartbeat or a pong frame.
AgentSend(h, type) ==
    /\ h \in Handles
    /\ readyState(h) = "OPEN"
    /\ Len(inbox) + Len(dispatchLog) < MaxFrames
    /\ inbox' = Append(inbox, [ws |-> h, id |-> Len(FramesOf(inbox, h)) + Len(FramesOf(dispatchLog, h)) + 1, type |-> type])
    /\ UNCHANGED <<now, sweepDue, destroyed, dropLog, registrations, dispatchLog, broadcast, regVars, cmdVars>>

NextFrameIndexLast(h) == CHOOSE i \in 1..Len(inbox) : inbox[i].ws = h /\ \A j \in (i + 1)..Len(inbox) : inbox[j].ws # h

\* the frame of ws h that its next message event carries
NextFrameIndex(h) == CHOOSE i \in 1..Len(inbox) : inbox[i].ws = h /\ \A j \in 1..(i - 1) : inbox[j].ws # h

\* Lines 78-98 for the next frame of ws h: the touch, then the handler of the
\* frame's type is invoked (heartbeat issues its update and suspends; pong
\* only logs).
Deliver(h) ==
    /\ Receiving(h)
    /\ FramesOf(inbox, h) # <<>>
    /\ Len(nodeOps) < MaxNodeOps
    /\ LET i == NextFrameIndex(h) IN
        /\ inbox' = [j \in 1..(Len(inbox) - 1) |-> IF j < i THEN inbox[j] ELSE inbox[j + 1]]
        /\ dispatchLog' = Append(dispatchLog, inbox[i])
        /\ nodeOps' = IF inbox[i].type = "heartbeat" THEN Append(nodeOps, NodeUpdate(sockets[h].nodeId, "online", now, TRUE)) ELSE nodeOps
    /\ connectedNodes' = Touch(connectedNodes, sockets[h].nodeId)
    /\ UNCHANGED <<now, sweepDue, destroyed, dropLog, registrations, broadcast, sockets, outbox, nodeDb, timeoutLog, cmdVars>>

\* A frame whose type has no handler: the touch, then the console.warn line
\* of the dispatch's else branch.
RecvUnknown(h) ==
    /\ Receiving(h)
    /\ Len(dropLog) < MaxDropped
    /\ connectedNodes' = Touch(connectedNodes, sockets[h].nodeId)
    /\ dropLog' = Append(dropLog, [ws |-> h, kind |-> "unknown", at |-> now])
    /\ UNCHANGED <<now, sweepDue, wireVars, destroyed, registrations, broadcast, sockets, outbox, nodeDb, nodeOps, timeoutLog, cmdVars>>

\* Lines 99-101: the catch block logs the error; the ws is left as it is.
SocketClosedOnParseError(h) == [sockets[h] EXCEPT !.readyState = "CLOSING"]

SocketAfterParseError(h) == sockets[h]

\* A frame that is not a JSON object with a type.  Text that is not JSON makes
\* JSON.parse throw at line 80, before the touch (parses = FALSE); the JSON
\* text `null` is parsed and the touch is made, then data.type throws at
\* line 89 (parses = TRUE).  Either way the catch block logs the error.
RecvMalformed(h, parses) ==
    /\ Receiving(h)
    /\ Len(dropLog) < MaxDropped
    /\ connectedNodes' = IF parses THEN Touch(connectedNodes, sockets[h].nodeId) ELSE connectedNodes
    /\ sockets' = [sockets EXCEPT ![h] = SocketAfterParseError(h)]
    /\ dropLog' = Append(dropLog, [ws |-> h, kind |-> "malformed", at |-> now])
    /\ UNCHANGED <<now, sweepDue, wireVars, destroyed, registrations, broadcast, outbox, nodeDb, nodeOps, timeoutLog, cmdVars>>

\* handlers.register, lines 160-174: the touch, then the handler runs to
\* `await Node.findOneAndUpdate(..., {upsert: true})`.
RecvRegister(h) ==
    /\ Receiving(h)
    /\ Len(nodeOps) < MaxNodeOps
    /\ Cardinality(registrations) < MaxRegisters
    /\ connectedNodes' = Touch(connectedNodes, sockets[h].nodeId)
    /\ nodeOps' = Append(nodeOps, [NodeUpdate(sockets[h].nodeId, "online", now, TRUE) EXCEPT !.reply = h])
    /\ registrations' = registrations \cup {[ws |-> h, pc |-> "update", value |-> "none"]}
    /\ UNCHANGED <<now, sweepDue, wireVars, destroyed, dropLog, broadcast, sockets, outbox, nodeDb, timeoutLog, cmdVars>>

\* handlers.js line 182: the object the register handler returns
RegisterConfirmation == "register_confirmation"

\* server.js line 95: `await handlers[data.type](nodeId, data, ws)` is a
\* statement; the value the handler returns is not used, and the frames
\* written to the ws are what they were.
OutboxAfterHandler(h, value) == outbox[h]

\* The register handlers after the store has applied op: the one that awaited
\* it returns its confirmation object to the dispatch.
RegistrationsAfter(op) == IF op.reply = 0 THEN registrations ELSE (registrations \ {[ws |-> op.reply, pc |-> "update", value |-> "none"]}) \cup {[ws |-> op.reply, pc |-> "returned", value |-> RegisterConfirmation]}

\* ---------------------------------------------------- ws.on('close', ...)
\* The closing handshake begins at the peer: the ws leaves OPEN.
CloseStart(h) ==
    /\ h \in Handles
    /\ readyState(h) = "OPEN"
    /\ sockets' = [sockets EXCEPT ![h].readyState = "CLOSING"]
    /\ UNCHANGED <<now, sweepDue, frameVars, broadcast, outbox, connectedNodes, nodeDb, nodeOps, timeoutLog, cmdVars>>

SlotsAfterCloseDropped(n) == {c \in commandCallbacks : calls[c].nodeId # n}

\* Lines 105-118 do not reach commandCallbacks: the callbacks stored for the
\* commands of the node stay.
SlotsAfterClose(n) == commandCallbacks

\* The ws is closed and emits 'close': the handler deletes the entry stored
\* under its nodeId and issues the offline update stamped with the close instant.
CloseEvent(h) ==
    /\ h \in Handles
    /\ readyState(h) \in {"OPEN", "CLOSING"}
    /\ Len(nodeOps) < MaxNodeOps
    /\ sockets' = [sockets EXCEPT ![h].readyState = "CLOSED"]
    /\ connectedNodes' = MapDelete(connectedNodes, sockets[h].nodeId)
    /\ nodeOps' = Append(nodeOps, NodeUpdate(sockets[h].nodeId, "offline", now, FALSE))
    /\ commandCallbacks' = SlotsAfterClose(sockets[h].nodeId)
    /\ UNCHANGED <<now, sweepDue, frameVars, broadcast, outbox, nodeDb, timeoutLog, commands, cmdOps, calls, timers, responses>>

\* ------------------------------------------- the heartbeat setInterval
\* if (now - node.lastSeen > config.websocket.heartbeatTimeout)
ExpiredAtOrAfter(e) == now - e.lastSeen >= heartbeatTimeout

ExpiredLate(e) == now - e.lastSeen > heartbeatTimeout + heartbeatInterval

Expired(e) == now - e.lastSeen > heartbeatTimeout

\* the entries the forEach finds expired, in the Map's order
ExpiredEntries == SelectSeq(connectedNodes, Expired)

\* if (node.ws.readyState === WebSocket.OPEN) node.ws.close(1001, 'Heartbeat timeout')
EvictSocketNoClose(h) == sockets[h]

EvictSocket(h) == IF readyState(h) = "OPEN" THEN [sockets[h] EXCEPT !.readyState = "CLOSING", !.closeCode = 1001] ELSE sockets[h]

\* connectedNodes.delete(nodeId) for every expired entry
EvictEntries == SelectSeq(connectedNodes, LAMBDA e : ~Expired(e))

\* Node.findOneAndUpdate({nodeId}, {status: 'offline', lastSeen: new Date(node.lastSeen)})
EvictionUpdate(e) == NodeUpdate(e.nodeId, "offline", e.lastSeen, FALSE)

\* One run of the interval callback over the whole Map.
Sweep ==
    /\ Len(nodeOps) + Len(ExpiredEntries) <= MaxNodeOps
    /\ sockets' = [h \in Handles |-> IF \E i \in 1..Len(ExpiredEntries) : ExpiredEntries[i].ws = h THEN EvictSocket(h) ELSE sockets[h]]
    /\ connectedNodes' = EvictEntries
    /\ nodeOps' = nodeOps \o [i \in 1..Len(ExpiredEntries) |-> EvictionUpdate(ExpiredEntries[i])]
    /\ timeoutLog' = timeoutLog \cup {[nodeId |-> ExpiredEntries[i].nodeId, lastSeen |-> ExpiredEntries[i].lastSeen] : i \in 1..Len(ExpiredEntries)}
    /\ sweepDue' = FALSE
    /\ UNCHANGED <<now, frameVars, broadcast, outbox, nodeDb, cmdVars>>

\* ------------------------------------------------ the Node collection
\* findOneAndUpdate without upsert changes nothing when no record matches.
ApplyUpdate(db, op) == IF op.upsert \/ db[op.nodeId].status # "none" THEN [db EXCEPT ![op.nodeId] = [status |-> op.status, lastSeen |-> op.lastSeen]] ELSE db

\* The store applies the oldest Node.findOneAndUpdate in flight; a register
\* handler that awaits it resumes and returns.
ApplyNodeOp ==
    /\ nodeOps # <<>>
    /\ nodeOps' = Tail(nodeOps)
    /\ nodeDb' = ApplyUpdate(nodeDb, Head(nodeOps))
    /\ registrations' = RegistrationsAfter(Head(nodeOps))
    /\ outbox' = IF Head(nodeOps).reply = 0 THEN outbox ELSE [outbox EXCEPT ![Head(nodeOps).reply] = OutboxAfterHandler(Head(nodeOps).reply, RegisterConfirmation)]
    /\ UNCHANGED <<now, sweepDue, wireVars, destroyed, dropLog, broadcast, sockets, connectedNodes, timeoutLog, cmdVars>>

\* The oldest Node.findOneAndUpdate in flight fails: the record is not
\* written; the .catch of the issuing code (or the handler's catch block)
\* logs the error, and a register handler that awaited it returns.
FailNodeOp ==
    /\ nodeOps # <<>>
    /\ nodeOps' = Tail(nodeOps)
    /\ registrations' = RegistrationsAfter(Head(nodeOps))
    /\ UNCHANGED <<now, sweepDue, wireVars, destroyed, dropLog, broadcast, sockets, outbox, connectedNodes, nodeDb, timeoutLog, cmdVars>>

\* ------------------------------------------------- exports.sendToNode
\* Whether sendToNode(n, message) returns true; writeOk is false when
\* node.ws.send throws.
sendToNodeNoStateCheck(n, writeOk) == Has(connectedNodes, n) /\ writeOk

sendToNode(n, writeOk) == Has(connectedNodes, n) /\ readyState(MapGet(connectedNodes, n).ws) = "OPEN" /\ writeOk

CommandFrame(c) == [type |-> "command", commandId |-> c]

\* ---------------------------------------------------- exports.broadcast
\* the message handed to broadcast
BroadcastFrame == [type |-> "broadcast", commandId |-> 0]

BroadcastsWritten(h) == Len(SelectSeq(outbox[h], LAMBDA f : f = BroadcastFrame))

EntriesAfterBroadcastPruned == SelectSeq(connectedNodes, LAMBDA e : readyState(e.ws) = "OPEN")

\* Lines 198-207: the forEach reads the entries and changes none.
EntriesAfterBroadcast == connectedNodes

\* Lines 192-211: the message is written to the ws of every entry whose
\* handle is open; failing is the set of ws whose send throws.
RegistryBroadcast(failing) ==
    /\ \A h \in Handles : BroadcastsWritten(h) < MaxBroadcasts
    /\ outbox' = [h \in Handles |-> IF (\E i \in 1..Len(connectedNodes) : connectedNodes[i].ws = h) /\ readyState(h) = "OPEN" /\ h \notin failing THEN Append(outbox[h], BroadcastFrame) ELSE outbox[h]]
    /\ connectedNodes' = EntriesAfterBroadcast
    /\ UNCHANGED <<now, sweepDue, frameVars, broadcast, sockets, nodeDb, nodeOps, timeoutLog, cmdVars>>

\* ------------------------------------------------ exports.sendCommand
\* Promise semantics: the first resolve/reject settles, later ones are no-ops;
\* settles counts the calls of resolve and reject.
SettleNever(call, outcome, value) == call

Settle(call, outcome, value) == [call EXCEPT !.pc = "done", !.settles = @ + 1, !.outcome = IF call.settles = 0 THEN outcome ELSE @, !.value = IF call.settles = 0 THEN value ELSE @]

\* uuidv4() is modelled by giving the k-th invocation the commandId k.
NextCall == CHOOSE c \in CommandIds : calls[c].pc = "idle" /\ \A d \in CommandIds : d < c => calls[d].pc # "idle"

ConnectivityCheckNone(n) == TRUE

ConnectivityCheckRecord(n) == isNodeConnected(n) /\ nodeDb[n].status = "online"

ConnectivityCheck(n) == isNodeConnected(n)

\* Lines 12-31 of one invocation: it throws at the connectivity check or
\* runs to `await command.save()` (pending).
StartedCall(n, wait) == IF ConnectivityCheck(n) THEN [IdleCall EXCEPT !.pc = "savePending", !.nodeId = n, !.wait = wait] ELSE [IdleCall EXCEPT !.pc = "done", !.nodeId = n, !.wait = wait, !.outcome = "NodeNotConnected"]

\* -------------------------------------------- exports.broadcastCommand
\* Promise.allSettled(...) is settled once every sendCommand of the
\* broadcast has returned or thrown.
BroadcastSettledAny(b, cs) == \E i \in 1..Len(b.members) : cs[b.members[i]].pc = "done"

BroadcastSettled(b, cs) == \A i \in 1..Len(b.members) : cs[b.members[i]].pc = "done"

\* results.filter(result => result.status === 'fulfilled').length
Fulfilled(b, cs) == Cardinality({i \in 1..Len(b.members) : cs[b.members[i]].outcome = "returned"})

\* Lines 119-123: the aggregate returned after the await.
BroadcastResult(b, cs) == [sent |-> Fulfilled(b, cs), total |-> Len(b.members), failureCount |-> Len(b.members) - Fulfilled(b, cs)]

\* Lines 103-105: the aggregate returned when no node is enumerated.
EmptyBroadcastResult == [sent |-> 0, total |-> 0]

\* The continuation of `await Promise.allSettled(...)` runs in the microtasks
\* of the step that settles the last sendCommand of the broadcast.
BroadcastResume(b, cs) == IF b.pc = "waiting" /\ BroadcastSettled(b, cs) THEN [b EXCEPT !.pc = "done", !.result = BroadcastResult(b, cs)] ELSE b

\* the number of sendCommand invocations so far
Issued == Cardinality({c \in CommandIds : calls[c].pc # "idle"})

\* Lines 99-112: getConnectedNodes is enumerated and sendCommand(node.nodeId,
\* ..., false) is invoked for each element, every invocation running to its
\* first await (or to its throw) before the broadcast suspends.
BroadcastStart ==
    /\ broadcast.pc = "idle"
    /\ Issued + Len(getConnectedNodes) <= MaxCalls
    /\ LET N == Len(getConnectedNodes)
           members == [i \in 1..N |-> Issued + i]
       IN  /\ calls' = [c \in CommandIds |-> IF c > Issued /\ c <= Issued + N THEN StartedCall(getConnectedNodes[c - Issued].nodeId, FALSE) ELSE calls[c]]
           /\ broadcast' = IF N = 0 THEN [broadcast EXCEPT !.pc = "done", !.result = EmptyBroadcastResult] ELSE BroadcastResume([broadcast EXCEPT !.pc = "waiting", !.members = members], calls')
    /\ UNCHANGED <<now, sweepDue, frameVars, regVars, commands, cmdOps, timers, commandCallbacks, responses>>

\* Lines 12-31: the connectivity check, then `await command.save()` (pending).
SendCommandStart(n, wait) ==
    /\ \E c \in CommandIds : calls[c].pc = "idle"
    /\ calls' = [calls EXCEPT ![NextCall] = StartedCall(n, wait)]
    /\ UNCHANGED <<now, sweepDue, frameVars, broadcast, regVars, commands, cmdOps, timers, commandCallbacks, responses>>

\* Lines 31-57: the pending record is stored, the frame is handed to
\* sendToNode, and the save of `failed` or `sent` is started.
SendCommandTransmit(c, writeOk) ==
    /\ calls[c].pc = "savePending"
    /\ commands' = [commands EXCEPT ![c] = [NoCommand EXCEPT !.status = "pending", !.nodeId = calls[c].nodeId]]
    /\ IF sendToNode(calls[c].nodeId, writeOk)
       THEN /\ outbox' = [outbox EXCEPT ![MapGet(connectedNodes, calls[c].nodeId).ws] = Append(@, CommandFrame(c))]
            /\ calls' = [calls EXCEPT ![c].pc = "saveSent"]
       ELSE /\ outbox' = outbox
            /\ calls' = [calls EXCEPT ![c].pc = "saveFailed"]
    /\ UNCHANGED <<now, sweepDue, frameVars, broadcast, sockets, connectedNodes, nodeDb, nodeOps, timeoutLog, cmdOps, timers, commandCallbacks, responses>>

\* Line 47: command.status = 'failed'
StatusAfterSendFailureSent == "sent"

StatusAfterSendFailure == "failed"

\* Lines 45-52: `failed` is stored and the send-failed error is thrown.
SendCommandFailed(c) ==
    /\ calls[c].pc = "saveFailed"
    /\ commands' = [commands EXCEPT ![c].status = StatusAfterSendFailure, ![c].error = "Failed to send command"]
    /\ calls' = [calls EXCEPT ![c].pc = "done", ![c].outcome = "CommandSendFailed"]
    /\ broadcast' = BroadcastResume(broadcast, calls')
    /\ UNCHANGED <<now, sweepDue, frameVars, regVars, cmdOps, timers, commandCallbacks, responses>>

WaitsForResponseAlways(call) == TRUE

\* Line 62: if (!waitForResponse) return command
WaitsForResponse(call) == call.wait

\* Lines 54-93: `sent` is stored; a non-waiting call returns the command, a
\* waiting call arms the timer and stores its callback.
SendCommandSent(c) ==
    /\ calls[c].pc = "saveSent"
    /\ commands' = [commands EXCEPT ![c].status = "sent"]
    /\ IF WaitsForResponse(calls[c])
       THEN /\ calls' = [calls EXCEPT ![c].pc = "waiting"]
            /\ timers' = [timers EXCEPT ![c] = "armed"]
            /\ commandCallbacks' = commandCallbacks \cup {c}
       ELSE /\ calls' = [calls EXCEPT ![c].pc = "done", ![c].outcome = "returned"]
            /\ UNCHANGED <<timers, commandCallbacks>>
    /\ broadcast' = BroadcastResume(broadcast, calls')
    /\ UNCHANGED <<now, sweepDue, frameVars, regVars, cmdOps, responses>>

\* Line 70: commandCallbacks.delete(commandId)
SlotsAfterTimeoutKept(c) == commandCallbacks

SlotsAfterTimeout(c) == commandCallbacks \ {c}

FramesAfterTimeoutCancel(c) == [h \in Handles |-> IF \E i \in 1..Len(connectedNodes) : connectedNodes[i].nodeId = calls[c].nodeId /\ connectedNodes[i].ws = h THEN Append(outbox[h], [type |-> "cancel", commandId |-> c]) ELSE outbox[h]]

\* Lines 68-81 hold no ws.send and no call of sendToNode: the frames written
\* to every ws are what they were.
FramesAfterTimeout(c) == outbox

\* Lines 68-81: the setTimeout callback.
TimeoutFires(c) ==
    /\ timers[c] = "armed"
    /\ timers' = [timers EXCEPT ![c] = "fired"]
    /\ commandCallbacks' = SlotsAfterTimeout(c)
    /\ cmdOps' = cmdOps \cup {c}
    /\ calls' = [calls EXCEPT ![c] = Settle(@, "CommandTimedOut", "Command timed out")]
    /\ outbox' = FramesAfterTimeout(c)
    /\ UNCHANGED <<now, sweepDue, frameVars, broadcast, sockets, connectedNodes, nodeDb, nodeOps, timeoutLog, commands, responses>>

\* The store applies Command.findOneAndUpdate({commandId}, {status: 'timeout', error}).
ApplyCmdOp(c) ==
    /\ c \in cmdOps
    /\ cmdOps' = cmdOps \ {c}
    /\ commands' = IF commands[c].status # "none" THEN [commands EXCEPT ![c].status = "timeout", ![c].error = "Command timed out"] ELSE commands
    /\ UNCHANGED <<now, sweepDue, frameVars, broadcast, regVars, calls, timers, commandCallbacks, responses>>

\* ------------------------------------------- handlers.command_response
\* A command_response frame on ws h: the touch, then the handler runs to
\* `await Command.findOne(...)`; nodeId is the handler's first argument, the
\* nodeId of the connection that received the frame.
RecvCommandResponse(h, c, success, p) ==
    /\ Receiving(h)
    /\ Cardinality(responses) < MaxInFlight
    /\ connectedNodes' = Touch(connectedNodes, sockets[h].nodeId)
    /\ responses' = responses \cup {[nodeId |-> sockets[h].nodeId, commandId |-> c, success |-> success, payload |-> p, pc |-> "find"]}
    /\ UNCHANGED <<now, sweepDue, frameVars, broadcast, sockets, outbox, nodeDb, nodeOps, timeoutLog, commands, cmdOps, calls, timers, commandCallbacks>>

\* Lines 84-87: a command_response frame without a commandId: the touch, then
\* the handler logs the warning and returns.
RecvInvalidResponse(h) ==
    /\ Receiving(h)
    /\ connectedNodes' = Touch(connectedNodes, sockets[h].nodeId)
    /\ UNCHANGED <<now, sweepDue, frameVars, broadcast, sockets, outbox, nodeDb, nodeOps, timeoutLog, cmdVars>>

KnownCommandAlways(c) == TRUE

\* Lines 90-92: whether Command.findOne({commandId}) finds a record
KnownCommand(c) == commands[c].status # "none"

\* Lines 90-106: findOne answers; an unknown command ends the handler, a
\* known one gets the response's fields and `await command.save()` starts.
ResponseFind(r) ==
    /\ r \in responses
    /\ r.pc = "find"
    /\ responses' = IF ~KnownCommand(r.commandId) THEN responses \ {r} ELSE (responses \ {r}) \cup {[r EXCEPT !.pc = "save"]}
    /\ UNCHANGED <<now, sweepDue, frameVars, broadcast, regVars, commands, cmdOps, calls, timers, commandCallbacks>>

ResponseStatus(r) == IF r.success THEN "successful" ELSE "failed"

ResponseOutcome(r) == IF r.success THEN "resolved" ELSE "rejected"

\* exports.notifyCommandCompletion: whether a callback is stored for c
HasCallbackAlways(c) == calls[c].pc \in {"waiting", "done"} /\ calls[c].wait

HasCallback(c) == c \in commandCallbacks

\* Line 134: commandCallbacks.delete(commandId)
SlotsAfterNotifyKept(c) == commandCallbacks

SlotsAfterNotifyNone(c) == {}

SlotsAfterNotify(c) == commandCallbacks \ {c}

\* Lines 106-119: the save is stored, then notifyCommandCompletion runs the
\* callback (clearTimeout, resolve or reject) and deletes it.
ResponseSave(r) ==
    /\ r \in responses
    /\ r.pc = "save"
    /\ responses' = responses \ {r}
    /\ commands' = [commands EXCEPT ![r.commandId].status = ResponseStatus(r), ![r.commandId].completed = TRUE, ![r.commandId].result = IF r.success THEN r.payload ELSE "", ![r.commandId].error = IF r.success THEN "" ELSE r.payload]
    /\ IF HasCallback(r.commandId)
       THEN /\ timers' = [timers EXCEPT ![r.commandId] = IF @ = "armed" THEN "cleared" ELSE @]
            /\ calls' = [calls EXCEPT ![r.commandId] = Settle(@, ResponseOutcome(r), r.payload)]
            /\ commandCallbacks' = SlotsAfterNotify(r.commandId)
       ELSE UNCHANGED <<timers, calls, commandCallbacks>>
    /\ UNCHANGED <<now, sweepDue, frameVars, broadcast, regVars, cmdOps>>

\* Command.findOne rejects at line 90: the catch block of lines 120-126 logs
\* the error and the handler ends.
ResponseFindFails(r) ==
    /\ r \in responses
    /\ r.pc = "find"
    /\ responses' = responses \ {r}
    /\ UNCHANGED <<now, sweepDue, frameVars, broadcast, regVars, commands, cmdOps, calls, timers, commandCallbacks>>

\* command.save() rejects at line 106: the record is not written, lines
\* 108-119 are skipped and the catch block logs the error.
ResponseSaveFails(r) ==
    /\ r \in responses
    /\ r.pc = "save"
    /\ responses' = responses \ {r}
    /\ UNCHANGED <<now, sweepDue, frameVars, broadcast, regVars, commands, cmdOps, calls, timers, commandCallbacks>>

\* ------------------------------------------------------ specifications
\* The registry, the heartbeat sweep and the Node collection.
NextRegistry ==
    \/ Tick
    \/ \E n \in Nodes : Connect(n)
    \/ \E h \in Handles : RecvHeartbeat(h)
    \/ \E h \in Handles : RecvPong(h)
    \/ \E h \in Handles : CloseStart(h)
    \/ \E h \in Handles : CloseEvent(h)
    \/ Sweep
    \/ ApplyNodeOp

SpecRegistry == Init /\ [][NextRegistry]_vars

\* The command correlation engine over a registry whose connections open
\* and close; the clock stands still.
NextCommands ==
    \/ \E n \in Nodes : Len(sockets) < MaxCmdConns /\ Connect(n)
    \/ \E h \in Handles : CloseStart(h)
    \/ \E h \in Handles : CloseEvent(h)
    \/ \E n \in Nodes, wait \in BOOLEAN : SendCommandStart(n, wait)
    \/ \E c \in CommandIds, writeOk \in BOOLEAN : SendCommandTransmit(c, writeOk)
    \/ \E c \in CommandIds : SendCommandFailed(c)
    \/ \E c \in CommandIds : SendCommandSent(c)
    \/ \E c \in CommandIds : TimeoutFires(c)
    \/ \E c \in CommandIds : ApplyCmdOp(c)
    \/ \E h \in Handles, c \in CommandIds, success \in BOOLEAN, p \in Payloads : RecvCommandResponse(h, c, success, p)
    \/ \E h \in Handles : RecvInvalidResponse(h)
    \/ \E r \in responses : ResponseFind(r)
    \/ \E r \in responses : ResponseSave(r)

SpecCommands == Init /\ [][NextCommands]_vars

\* The registry for the scenario of one connection per nodeId that receives
\* no frame once the sweep has closed it.
NextQuietEviction ==
    \/ Tick
    \/ \E n \in Nodes : (\A h \in Handles : sockets[h].nodeId # n) /\ Connect(n)
    \/ \E h \in Handles : sockets[h].closeCode # 1001 /\ RecvHeartbeat(h)
    \/ \E h \in Handles : sockets[h].closeCode # 1001 /\ RecvPong(h)
    \/ \E h \in Handles : CloseEvent(h)
    \/ Sweep
    \/ ApplyNodeOp

SpecQuietEviction == Init /\ [][NextQuietEviction]_vars

\* The upgrade handler with requests of every kind, over a registry whose
\* connections send heartbeats and close; the clock stands still.
NextUpgrade ==
    \/ \E pathOk \in BOOLEAN, n \in Nodes \cup {NoId}, secret \in Secrets : Upgrade(pathOk, n, secret)
    \/ \E h \in Handles : RecvHeartbeat(h)
    \/ \E h \in Handles : CloseEvent(h)
    \/ ApplyNodeOp

SpecUpgrade == Init /\ [][NextUpgrade]_vars

\* The message handler with frames of every kind on a registered connection.
NextFrames ==
    \/ Tick
    \/ \E n \in Nodes : Len(sockets) < MaxFrameConns /\ Connect(n)
    \/ \E h \in Handles : RecvHeartbeat(h)
    \/ \E h \in Handles : RecvPong(h)
    \/ \E h \in Handles : RecvUnknown(h)
    \/ \E h \in Handles, parses \in BOOLEAN : RecvMalformed(h, parses)
    \/ \E h \in Handles : RecvRegister(h)
    \/ \E h \in Handles : CloseEvent(h)
    \/ Sweep
    \/ ApplyNodeOp

SpecFrames == Init /\ [][NextFrames]_vars

\* Awaited commands only, with responses, disconnects and timeouts.  A save
\* that was started completes and an armed timer fires unless it is cleared:
\* the steps that follow them are weakly fair.
NextAwaited ==
    \/ \E n \in Nodes : Len(sockets) < MaxCmdConns /\ Connect(n)
    \/ \E h \in Handles : CloseStart(h)
    \/ \E h \in Handles : CloseEvent(h)
    \/ \E n \in Nodes : SendCommandStart(n, TRUE)
    \/ \E c \in CommandIds, writeOk \in BOOLEAN : SendCommandTransmit(c, writeOk)
    \/ \E c \in CommandIds : SendCommandFailed(c)
    \/ \E c \in CommandIds : SendCommandSent(c)
    \/ \E c \in CommandIds : TimeoutFires(c)
    \/ \E c \in CommandIds : ApplyCmdOp(c)
    \/ \E h \in Handles, c \in CommandIds, success \in BOOLEAN, p \in Payloads : RecvCommandResponse(h, c, success, p)
    \/ \E r \in responses : ResponseFind(r)
    \/ \E r \in responses : ResponseSave(r)

FairAwaited ==
    \A c \in CommandIds :
        /\ WF_vars(\E writeOk \in BOOLEAN : SendCommandTransmit(c, writeOk))
        /\ WF_vars(SendCommandFailed(c))
        /\ WF_vars(SendCommandSent(c))
        /\ WF_vars(TimeoutFires(c))

SpecAwaited == Init /\ [][NextAwaited]_vars /\ FairAwaited

\* One awaited command and the registry, with store operations that fail:
\* the lookup and the save of the response handler and the updates of the
\* Node collection.
NextFailures ==
    \/ Tick
    \/ \E n \in Nodes : Len(sockets) < MaxCmdConns /\ Connect(n)
    \/ \E h \in Handles : CloseEvent(h)
    \/ Sweep
    \/ ApplyNodeOp
    \/ FailNodeOp
    \/ \E n \in Nodes : calls[1].pc = "idle" /\ SendCommandStart(n, TRUE)
    \/ \E c \in CommandIds : SendCommandTransmit(c, TRUE)
    \/ \E c \in CommandIds : SendCommandFailed(c)
    \/ \E c \in CommandIds : SendCommandSent(c)
    \/ \E c \in CommandIds : TimeoutFires(c)
    \/ \E c \in CommandIds : ApplyCmdOp(c)
    \/ \E h \in Handles, c \in CommandIds, success \in BOOLEAN, p \in Payloads : RecvCommandResponse(h, c, success, p)
    \/ \E r \in responses : ResponseFind(r)
    \/ \E r \in responses : ResponseFindFails(r)
    \/ \E r \in responses : ResponseSave(r)
    \/ \E r \in responses : ResponseSaveFails(r)

SpecFailures == Init /\ [][NextFailures]_vars

\* The two ways of writing to the nodes, sendToNode (for one non-waiting
\* command) and broadcast, over the registry and its sweep.
NextSend ==
    \/ Tick
    \/ \E n \in Nodes : Connect(n)
    \/ \E h \in Handles : CloseStart(h)
    \/ \E h \in Handles : CloseEvent(h)
    \/ Sweep
    \/ ApplyNodeOp
    \/ \E n \in Nodes : calls[1].pc = "idle" /\ SendCommandStart(n, FALSE)
    \/ \E c \in CommandIds, writeOk \in BOOLEAN : SendCommandTransmit(c, writeOk)
    \/ \E c \in CommandIds : SendCommandFailed(c)
    \/ \E c \in CommandIds : SendCommandSent(c)
    \/ \E failing \in SUBSET Handles : RegistryBroadcast(failing)

SpecSend == Init /\ [][NextSend]_vars

\* Agents that send sequences of frames, the message events that deliver
\* them, and the frames the gateway writes; the clock stands still.
NextOrder ==
    \/ \E n \in Nodes : Connect(n)
    \/ \E h \in Handles, type \in {"heartbeat", "pong"} : AgentSend(h, type)
    \/ \E h \in Handles : Deliver(h)
    \/ \E h \in Handles : CloseEvent(h)
    \/ ApplyNodeOp
    \/ \E failing \in SUBSET Handles : RegistryBroadcast(failing)

SpecOrder == Init /\ [][NextOrder]_vars

\* broadcastCommand over a registry of up to MaxConns connections, with the
\* agents' responses to the commands it sends.
NextBroadcast ==
    \/ \E n \in Nodes : Connect(n)
    \/ \E h \in Handles : CloseStart(h)
    \/ \E h \in Handles : CloseEvent(h)
    \/ BroadcastStart
    \/ \E c \in CommandIds, writeOk \in BOOLEAN : SendCommandTransmit(c, writeOk)
    \/ \E c \in CommandIds : SendCommandFailed(c)
    \/ \E c \in CommandIds : SendCommandSent(c)
    \/ \E h \in Handles, c \in CommandIds, success \in BOOLEAN, p \in Payloads : RecvCommandResponse(h, c, success, p)
    \/ \E r \in responses : ResponseFind(r)
    \/ \E r \in responses : ResponseSave(r)

SpecBroadcast == Init /\ [][NextBroadcast]_vars

\* The registry under a sweep that keeps its schedule: connections open, send
\* heartbeats, are replaced and close, and the interval callback runs at
\* every multiple of the interval before the clock moves on.
NextSchedule ==
    \/ IntervalElapses
    \/ \E n \in Nodes : Connect(n)
    \/ \E h \in Handles : RecvHeartbeat(h)
    \/ \E h \in Handles : CloseEvent(h)
    \/ sweepDue /\ Sweep
    \/ ApplyNodeOp

SpecSchedule == Init /\ [][NextSchedule]_vars

\* Commands and broadcasts over a registry whose connections open and close
\* while the updates of the Node collection are applied late or fail, so
\* that the stored records and the Registry disagree; the clock stands still.
NextRouting ==
    \/ \E n \in Nodes : Connect(n)
    \/ \E h \in Handles : CloseEvent(h)
    \/ ApplyNodeOp
    \/ FailNodeOp
    \/ \E n \in Nodes : SendCommandStart(n, FALSE)
    \/ BroadcastStart
    \/ \E c \in CommandIds, writeOk \in BOOLEAN : SendCommandTransmit(c, writeOk)
    \/ \E c \in CommandIds : SendCommandFailed(c)
    \/ \E c \in CommandIds : SendCommandSent(c)

SpecRouting == Init /\ [][NextRouting]_vars

\* Awaited commands to one node while another node is connected and both
\* send command_response frames; the clock stands still.
NextCrossNode ==
    \/ \E n \in Nodes : (\A h \in Handles : sockets[h].nodeId # n) /\ Connect(n)
    \/ ApplyNodeOp
    \/ \E n \in Nodes : calls[1].pc = "idle" /\ SendCommandStart(n, TRUE)
    \/ \E c \in CommandIds : SendCommandTransmit(c, TRUE)
    \/ \E c \in CommandIds : SendCommandSent(c)
    \/ \E c \in CommandIds : TimeoutFires(c)
    \/ \E c \in CommandIds : ApplyCmdOp(c)
    \/ \E h \in Handles, c \in CommandIds, success \in BOOLEAN, p \in Payloads : RecvCommandResponse(h, c, success, p)
    \/ \E r \in responses : ResponseFind(r)
    \/ \E r \in responses : ResponseSave(r)

SpecCrossNode == Init /\ [][NextCrossNode]_vars

\* Connections of one nodeId that follow one another while the clock runs:
\* the agents send pong frames on every ws that is open, the frames are
\* delivered, and the sweep evicts.
NextStale ==
    \/ Tick
    \/ \E n \in Nodes : Connect(n)
    \/ \E h \in Handles : AgentSend(h, "pong")
    \/ \E h \in Handles : Deliver(h)
    \/ Sweep
    \/ ApplyNodeOp

SpecStale == Init /\ [][NextStale]_vars

Next == NextRegistry \/ NextCommands \/ NextBroadcast \/ NextUpgrade \/ NextFrames \/ NextAwaited \/ NextFailures \/ NextSend \/ NextOrder \/ NextSchedule \/ NextRouting \/ NextCrossNode \/ NextStale

Spec == Init /\ [][Next]_vars

\* ================================================================ claims
Terminal == {"successful", "failed", "timeout"}

\* The Registry has no entry for n whose handle is open.
NoOpenEntry(n) == ~\E i \in 1..Len(connectedNodes) : connectedNodes[i].nodeId = n /\ sockets[connectedNodes[i].ws].readyState = "OPEN"

\* The command frame of c was written to some ws.
FrameSent(c) == \E h \in Handles : \E i \in 1..Len(outbox[h]) : outbox[h][i] = [type |-> "command", commandId |-> c]

\* The response handler r stores its save and notifies in this step.
Saves(r) == r \in responses /\ r.pc = "save" /\ r \notin responses'

\* ---- C1
NotConnectedLeavesNothing ==
    \A c \in CommandIds :
        calls[c].outcome = "NodeNotConnected" =>
            /\ commands[c].status = "none"
            /\ ~FrameSent(c)
            /\ c \notin commandCallbacks
            /\ timers[c] = "none"

NotConnectedStep ==
    \A c \in CommandIds :
        (calls[c].pc = "idle" /\ calls'[c].pc # "idle" /\ NoOpenEntry(calls'[c].nodeId)) =>
            /\ calls'[c].pc = "done"
            /\ calls'[c].outcome = "NodeNotConnected"
            /\ UNCHANGED <<commands, outbox, commandCallbacks, timers, cmdOps>>

\* C1: a sendCommand for a nodeId that has no Registry entry with an open
\* handle at the call rejects with the not-connected error in that very step,
\* and neither then nor later is there a Command record, a frame, a
\* pending-response slot or a timer for it.
C1_NotConnectedRejects == []NotConnectedLeavesNothing /\ [][NotConnectedStep]_vars

\* C1 witness: a call was rejected as not connected although the Registry
\* holds an entry for its node (the entry's handle is not open).
C1_Witness == \E c \in CommandIds : calls[c].outcome = "NodeNotConnected" /\ Has(connectedNodes, calls[c].nodeId)

\* ---- C2
ResponseSettlesCaller ==
    \A c \in CommandIds :
        (calls[c].wait /\ calls[c].settles = 0 /\ calls'[c].settles > 0 /\ commands'[c].completed) =>
            /\ commands'[c].status \in {"successful", "failed"}
            /\ calls'[c].outcome = (IF commands'[c].status = "successful" THEN "resolved" ELSE "rejected")
            /\ calls'[c].value = (IF commands'[c].status = "successful" THEN commands'[c].result ELSE commands'[c].error)

\* C2: whenever the caller of an awaited command is settled and a
\* command_response for the command has been stored by then (so it was
\* received before the timeout fired), the caller is settled with that
\* response: resolved with its result or rejected with its error, and the
\* Command's status is `successful` or `failed` as the success flag says.
C2_ResponseSettlesCaller == [][ResponseSettlesCaller]_vars

\* ---- C3
TimeoutStep ==
    \A c \in CommandIds :
        (timers[c] = "armed" /\ timers'[c] = "fired") =>
            /\ c \notin commandCallbacks'
            /\ calls'[c].outcome = "CommandTimedOut"
            /\ calls'[c].settles = 1
            /\ c \in cmdOps'

FiredOnce == \A c \in CommandIds : timers[c] = "fired" => (timers'[c] = "fired" /\ calls'[c] = calls[c])

NoResponseFor(c) == ~commands[c].completed /\ \A r \in responses : r.commandId # c

TimedOutRecord ==
    \A c \in CommandIds :
        (timers[c] = "fired" /\ c \notin cmdOps /\ NoResponseFor(c)) =>
            /\ commands[c].status = "timeout"
            /\ commands[c].error = "Command timed out"
            /\ calls[c].outcome = "CommandTimedOut"
            /\ c \notin commandCallbacks

\* C3: when the timer of an awaited command fires, its slot is removed, the
\* caller is rejected with the timed-out error (its only settlement) and the
\* update to `timeout` is issued; the timer fires once, and with no response
\* for the command the stored status is `timeout` with the error text once
\* the update is applied.
C3_TimeoutRejectsOnce == []TimedOutRecord /\ [][TimeoutStep /\ FiredOnce]_vars

\* C3 witness: a command timed out with no response, and the record says so.
C3_Witness == \E c \in CommandIds : timers[c] = "fired" /\ c \notin cmdOps /\ NoResponseFor(c) /\ commands[c].status = "timeout" /\ calls[c].outcome = "CommandTimedOut"

\* ---- C4
LateResponseStep ==
    \A r \in responses :
        (Saves(r) /\ timers[r.commandId] = "fired") =>
            /\ commands'[r.commandId].status = (IF r.success THEN "successful" ELSE "failed")
            /\ commands'[r.commandId].completed
            /\ commands'[r.commandId].result = (IF r.success THEN r.payload ELSE "")
            /\ commands'[r.commandId].error = (IF r.success THEN "" ELSE r.payload)
            /\ r.commandId \notin commandCallbacks
            /\ UNCHANGED <<calls, commandCallbacks, timers>>

\* C4: a command_response stored after the command's timer has fired writes
\* status, result, error and completed to the Command record, finds no slot,
\* creates none, and leaves every caller as it was (the caller rejected with
\* the timeout is not settled again).
C4_LateResponseReachesNoCaller == [][LateResponseStep]_vars

\* C4 witness: a response was stored for a command whose caller had been
\* rejected with the timeout, and the caller was settled once.
C4_Witness == \E c \in CommandIds : timers[c] = "fired" /\ commands[c].completed /\ commands[c].status \in {"successful", "failed"} /\ calls[c].outcome = "CommandTimedOut" /\ calls[c].settles = 1

\* ---- C5
SlotClaimedOnce ==
    \A c \in CommandIds :
        /\ calls[c].settles <= 1
        /\ (c \in commandCallbacks <=> timers[c] = "armed")
        /\ (c \in commandCallbacks => (calls[c].settles = 0 /\ calls[c].pc = "waiting"))
        /\ (timers[c] \in {"fired", "cleared"} => calls[c].settles = 1)
        /\ (timers[c] = "fired" => calls[c].outcome = "CommandTimedOut")
        /\ (timers[c] = "cleared" => calls[c].outcome \in {"resolved", "rejected"})

SettledStays == \A c \in CommandIds : calls[c].settles = 1 => (calls'[c] = calls[c] /\ c \notin commandCallbacks')

\* C5: a slot exists exactly while its timer is armed and its caller is
\* unsettled; the caller is settled at most once, by the timer (timed out) or
\* by a response (resolved or rejected), and once it is settled the slot is
\* gone and no later timer or response, duplicate responses included,
\* changes the caller's outcome or brings the slot back.
C5_OneWinner == []SlotClaimedOnce /\ [][SettledStays]_vars

\* C5 witness: a caller resolved by a response, after which a second response
\* with another payload was stored for the same commandId.
C5_Witness == \E c \in CommandIds : timers[c] = "cleared" /\ calls[c].outcome = "resolved" /\ commands[c].status = "successful" /\ commands[c].result # calls[c].value

\* ---- C6
Forward(s, t) ==
    \/ s = t
    \/ (s = "none" /\ t = "pending")
    \/ (s = "pending" /\ t \in {"sent", "failed"})
    \/ (s = "sent" /\ t \in Terminal)

\* C6: the stored status of every Command moves only along
\* pending -> sent -> {successful, failed, timeout} or pending -> failed, and
\* a terminal status never changes.
C6_StatusMonotonic == [][\A c \in CommandIds : Forward(commands[c].status, commands'[c].status)]_vars

\* ---- C7
\* The entry e of the pre-state is in no entry of the post-state.
Removed(e) == \A j \in 1..Len(connectedNodes') : connectedNodes'[j].nodeId # e.nodeId

SweepEvicts ==
    \A i \in 1..Len(connectedNodes) :
        LET e == connectedNodes[i] IN
        (now - e.lastSeen > heartbeatTimeout) =>
            /\ (sockets[e.ws].readyState = "OPEN" => (sockets'[e.ws].readyState = "CLOSING" /\ sockets'[e.ws].closeCode = 1001))
            /\ Removed(e)
            /\ (\E k \in 1..Len(nodeOps') : k > Len(nodeOps) /\ nodeOps'[k].nodeId = e.nodeId /\ nodeOps'[k].status = "offline")
            /\ ~(\E m \in 1..Len(connectedNodes') : connectedNodes'[m].nodeId = e.nodeId /\ sockets'[connectedNodes'[m].ws].readyState = "OPEN")

\* C7: a heartbeat sweep closes every entry whose now - lastSeen exceeds the
\* heartbeat timeout with code 1001 if its handle is open, removes it from
\* the Registry and issues an update marking its NodeRecord offline; after
\* the sweep the node is not connected.
C7_SweepEvictsExpired == [][Sweep => SweepEvicts]_vars

\* C7 witness: a ws closed by the sweep with code 1001, its node's entry gone
\* and the offline update in flight.
C7_Witness == \E h \in Handles : sockets[h].closeCode = 1001 /\ ~Has(connectedNodes, sockets[h].nodeId) /\ \E k \in 1..Len(nodeOps) : nodeOps[k].nodeId = sockets[h].nodeId /\ nodeOps[k].status = "offline"

\* ---- C8
\* C8: once the ws closed by an eviction has emitted its close event and every
\* NodeRecord update for the node has been applied (no other connection and
\* no later frame for the node), the NodeRecord is offline with lastSeen
\* equal to the lastSeen the evicted entry had.
C8_EvictedLastSeen ==
    \A h \in Handles :
        (sockets[h].closeCode = 1001 /\ sockets[h].readyState = "CLOSED" /\ \A k \in 1..Len(nodeOps) : nodeOps[k].nodeId # sockets[h].nodeId) =>
            /\ nodeDb[sockets[h].nodeId].status = "offline"
            /\ [nodeId |-> sockets[h].nodeId, lastSeen |-> nodeDb[sockets[h].nodeId].lastSeen] \in timeoutLog

\* ---- C9
EvictsOnlyExpired == \A i \in 1..Len(connectedNodes) : Removed(connectedNodes[i]) => now - connectedNodes[i].lastSeen > heartbeatTimeout

\* C9: a sweep removes an entry only if, in the state in which it removes
\* it, now - lastSeen of that entry is strictly greater than the heartbeat
\* timeout: an entry touched at most `timeout` ago is never evicted.
C9_EvictsOnlyExpired == [][Sweep => EvictsOnlyExpired]_vars

\* C9 witness: an eviction has happened while another entry, exactly
\* `timeout` old, is still registered.
C9_Witness == timeoutLog # {} /\ (\E i \in 1..Len(connectedNodes) : now - connectedNodes[i].lastSeen = heartbeatTimeout) /\ (\E h \in Handles : sockets[h].closeCode = 1001 /\ sockets[h].readyState = "CLOSING")

\* ---- C10
OneEntryPerNode ==
    /\ \A i, j \in 1..Len(connectedNodes) : i # j => connectedNodes[i].nodeId # connectedNodes[j].nodeId
    /\ \A i, j \in 1..Len(getConnectedNodes) : i # j => getConnectedNodes[i].nodeId # getConnectedNodes[j].nodeId

ReconnectReplaces ==
    \A n \in Nodes :
        (Len(sockets') = Len(sockets) + 1 /\ sockets'[Len(sockets')].nodeId = n /\ \E i \in 1..Len(connectedNodes) : connectedNodes[i].nodeId = n) =>
            /\ Len(connectedNodes') = Len(connectedNodes)
            /\ \A i \in 1..Len(connectedNodes') : connectedNodes'[i].nodeId = n => (connectedNodes'[i].ws = Len(sockets') /\ connectedNodes'[i].lastSeen = now)

\* C10: the Registry holds at most one entry per nodeId and getConnectedNodes
\* reports each nodeId once; an upgrade for a nodeId that has an entry keeps
\* the number of entries and stores the new handle and lastSeen in it.
C10_OneEntryPerNode == []OneEntryPerNode /\ [][ReconnectReplaces]_vars

\* C10 witness: two open connections of the same node, the entry holding the
\* second.
C10_Witness == Len(sockets) >= 2 /\ sockets[1].nodeId = sockets[2].nodeId /\ sockets[1].readyState = "OPEN" /\ sockets[2].readyState = "OPEN" /\ \E i \in 1..Len(connectedNodes) : connectedNodes[i].ws = 2

\* ---- C11
SweepSkipsAbsent ==
    \A n \in Nodes :
        ~Has(connectedNodes, n) =>
            /\ ~Has(connectedNodes', n)
            /\ \A h \in Handles : sockets[h].nodeId = n => sockets'[h] = sockets[h]
            /\ \A k \in 1..Len(nodeOps') : k > Len(nodeOps) => nodeOps'[k].nodeId # n
            /\ \A line \in timeoutLog' \ timeoutLog : line.nodeId # n

CloseAfterEvictionKeeps ==
    \A h \in Handles :
        (sockets[h].closeCode = 1001 /\ sockets[h].readyState # "CLOSED" /\ sockets'[h].readyState = "CLOSED") =>
            connectedNodes' = connectedNodes

\* C11: a sweep does nothing for a nodeId that has no entry (its sockets, the
\* updates in flight and the Registry stay as they are for it), and the close
\* event of a ws that the sweep has evicted leaves the Registry unchanged.
C11_TeardownIdempotent == [][(Sweep => SweepSkipsAbsent) /\ CloseAfterEvictionKeeps]_vars

\* ---- C12
\* the members of the broadcast whose sendCommand did not return a Command
FailedIssuances == Cardinality({i \in 1..Len(broadcast.members) : calls[broadcast.members[i]].outcome # "returned"})

\* C12: the aggregate returned by broadcastCommand over N enumerated nodes of
\* which K issuances failed has the three fields sent, total and failureCount
\* with sent = N - K, total = N and failureCount = K, for every N >= 0.
C12_BroadcastAggregate ==
    broadcast.pc = "done" =>
        /\ DOMAIN broadcast.result = {"sent", "total", "failureCount"}
        /\ broadcast.result.total = Len(broadcast.members)
        /\ broadcast.result.failureCount = FailedIssuances
        /\ broadcast.result.sent = Len(broadcast.members) - FailedIssuances
        /\ broadcast.result.sent + broadcast.result.failureCount = broadcast.result.total

\* ---- C13
\* the broadcast is invoked in this step
BroadcastInvoked == broadcast.pc = "idle" /\ broadcast'.pc # "idle"

\* the broadcast returns in this step
BroadcastReturns == broadcast.pc # "done" /\ broadcast'.pc = "done"

OneIssuancePerNode ==
    BroadcastInvoked =>
        /\ Len(broadcast'.members) = Len(connectedNodes)
        /\ \A i \in 1..Len(connectedNodes) :
            /\ calls[broadcast'.members[i]].pc = "idle"
            /\ calls'[broadcast'.members[i]].pc # "idle"
            /\ calls'[broadcast'.members[i]].nodeId = connectedNodes[i].nodeId
            /\ ~calls'[broadcast'.members[i]].wait
        /\ \A i, j \in 1..Len(connectedNodes) : i # j => broadcast'.members[i] # broadcast'.members[j]

ReturnsWhenSettled ==
    BroadcastReturns =>
        \A i \in 1..Len(broadcast'.members) : calls'[broadcast'.members[i]].outcome \in {"returned", "NodeNotConnected", "CommandSendFailed"}

SentOrFailedAtReturn ==
    BroadcastReturns =>
        \A i \in 1..Len(broadcast'.members) :
            commands'[broadcast'.members[i]].status \in {"none", "sent", "failed"}

SentOrFailedUnlessAnswered ==
    BroadcastReturns =>
        \A i \in 1..Len(broadcast'.members) :
            \/ commands'[broadcast'.members[i]].status \in {"none", "sent", "failed"}
            \/ commands'[broadcast'.members[i]].completed

\* While the broadcast is suspended, one of its sendCommand calls is suspended
\* at a save, and none of them holds a slot or a timer, before or after the
\* return.
BroadcastWaitsForSavesOnly ==
    /\ broadcast.pc = "waiting" => \E i \in 1..Len(broadcast.members) : calls[broadcast.members[i]].pc \in {"savePending", "saveSent", "saveFailed"}
    /\ \A i \in 1..Len(broadcast.members) :
        /\ broadcast.members[i] \notin commandCallbacks
        /\ timers[broadcast.members[i]] = "none"
        /\ calls[broadcast.members[i]].pc # "waiting"

Unauthenticated(n, secret) == n = NoId \/ secret = "" \/ secret # "secret"

RejectedUpgradeChangesNothing ==
    \A n \in Nodes \cup {NoId}, secret \in Secrets :
        (Unauthenticated(n, secret) /\ Upgrade(TRUE, n, secret)) =>
            /\ destroyed' = destroyed + 1
            /\ UNCHANGED <<sockets, outbox, connectedNodes, nodeDb, nodeOps>>

\* C14: an upgrade request without a node identifier, or whose secret is
\* absent or differs from the configured one, has its socket destroyed: no ws
\* is created for it (so no ping is written and no frame is dispatched), and
\* the Registry, the NodeRecords and the updates in flight are unchanged.
C14_UnauthenticatedUpgradeRejected == [][RejectedUpgradeChangesNothing]_vars

\* C14 witness: a request was rejected while a node was registered, and the
\* registered node is still there with its ws open.
C14_Witness == destroyed > 0 /\ Len(connectedNodes) = 1 /\ Len(sockets) = 1 /\ sockets[connectedNodes[1].ws].readyState = "OPEN" /\ nodeDb[connectedNodes[1].nodeId].status = "online"

\* ---- C15
\* a frame of some kind is received on ws h in this step
FrameReceived(h) ==
    \/ RecvHeartbeat(h)
    \/ RecvPong(h)
    \/ RecvRegister(h)
    \/ RecvUnknown(h)
    \/ RecvMalformed(h, TRUE)
    \/ RecvMalformed(h, FALSE)

\* C15: every frame received on the ws of a registered node, of a known type,
\* of an unknown type or malformed, sets the lastSeen of the node's entry to
\* the instant of its receipt.
C15_EveryFrameTouches ==
    [][\A h \in Handles :
        (FrameReceived(h) /\ Has(connectedNodes, sockets[h].nodeId)) =>
            MapGet(connectedNodes', sockets[h].nodeId).lastSeen = now]_vars

\* ---- C16
\* a frame received on ws h is dropped in this step
DroppedOn(h) == Len(dropLog') = Len(dropLog) + 1 /\ dropLog'[Len(dropLog')].ws = h

DropLeavesConnection ==
    \A h \in Handles :
        DroppedOn(h) =>
            /\ sockets' = sockets
            /\ Len(connectedNodes') = Len(connectedNodes)
            /\ \A i \in 1..Len(connectedNodes) : connectedNodes'[i].nodeId = connectedNodes[i].nodeId /\ connectedNodes'[i].ws = connectedNodes[i].ws
            /\ UNCHANGED <<commands, cmdOps, calls, timers, commandCallbacks, responses>>
            /\ UNCHANGED <<nodeDb, nodeOps, outbox, registrations>>

\* C16: a frame of an unknown type and a malformed frame are dropped: no
\* handler runs (no update is issued, nothing is written to the ws), the ws
\* and the handles of the Registry entries stay as they are, and the Command
\* records, the callers and the pending-response table are unchanged.
C16_DroppedFrameLeavesConnection == [][DropLeavesConnection]_vars

\* C16 witness: after a frame was dropped on a ws, a later heartbeat on the
\* same ws was dispatched: the entry was touched and the update issued.
C16_Witness == \E i \in 1..Len(dropLog) : \E k \in 1..Len(nodeOps) : \E j \in 1..Len(connectedNodes) :
    /\ sockets[dropLog[i].ws].readyState = "OPEN"
    /\ connectedNodes[j].ws = dropLog[i].ws
    /\ connectedNodes[j].lastSeen > dropLog[i].at
    /\ nodeOps[k].nodeId = connectedNodes[j].nodeId
    /\ nodeOps[k].status = "online"
    /\ nodeOps[k].lastSeen > dropLog[i].at

\* ---- C17
\* C17: once the register handler of a register frame received on a ws has
\* returned, a register_confirmation frame has been written to that ws.
C17_RegisterConfirmed ==
    \A r \in registrations :
        r.pc = "returned" => \E i \in 1..Len(outbox[r.ws]) : outbox[r.ws][i].type = "register_confirmation"

\* ---- C18
\* sendCommand c hands its frame to sendToNode in this step
Transmits(c) == calls[c].pc = "savePending" /\ calls'[c].pc # "savePending"

TransmissionFailure ==
    \A c \in CommandIds :
        ((Transmits(c) /\ NoOpenEntry(calls[c].nodeId)) \/ SendCommandTransmit(c, FALSE)) =>
            /\ calls'[c].pc = "saveFailed"
            /\ commands'[c].status = "pending"
            /\ UNCHANGED <<outbox, timers, commandCallbacks>>

FailedWithoutSent ==
    \A c \in CommandIds :
        /\ (calls[c].pc = "saveFailed" /\ calls'[c].pc # "saveFailed") =>
            /\ commands[c].status # "sent"
            /\ commands'[c].status = "failed"
            /\ calls'[c].pc = "done"
            /\ calls'[c].outcome = "CommandSendFailed"
            /\ UNCHANGED <<timers, commandCallbacks>>
        /\ (calls[c].pc = "saveFailed" \/ calls[c].outcome = "CommandSendFailed") => commands'[c].status # "sent"

SendFailedLeavesNothing ==
    \A c \in CommandIds :
        (calls[c].pc = "saveFailed" \/ calls[c].outcome = "CommandSendFailed") =>
            /\ c \notin commandCallbacks
            /\ timers[c] = "none"
            /\ ~FrameSent(c)
            /\ commands[c].status # "sent"

\* C18: when the node's entry is gone or its handle is not open at the
\* hand-over of the frame, or the write throws, nothing is written, the
\* Command stays `pending` until `failed` is stored, sendCommand then rejects
\* with the send-failed error whether or not it was to wait, the status is
\* never `sent`, and no slot or timer exists for the command.
C18_SendFailureFailsDirectly == []SendFailedLeavesNothing /\ [][TransmissionFailure /\ FailedWithoutSent]_vars

\* C18 witness: a waiting call was rejected with the send-failed error and
\* its Command is `failed`.
C18_Witness == \E c \in CommandIds : calls[c].wait /\ calls[c].outcome = "CommandSendFailed" /\ commands[c].status = "failed" /\ ~commands[c].completed

\* ---- C19
\* the Registry entry of n, with an open handle, that receives the frame
OpenEntryOf(n, h) == \E i \in 1..Len(connectedNodes) : connectedNodes[i].nodeId = n /\ connectedNodes[i].ws = h /\ sockets[h].readyState = "OPEN"

SentOnlyOverOpenHandle ==
    \A c \in CommandIds :
        /\ (commands[c].status # "sent" /\ commands'[c].status = "sent") => calls[c].pc = "saveSent"
        /\ (Transmits(c) /\ calls'[c].pc = "saveSent") =>
            \E h \in Handles : OpenEntryOf(calls[c].nodeId, h) /\ outbox'[h] = Append(outbox[h], [type |-> "command", commandId |-> c])
        /\ (calls[c].pc # "saveSent" /\ calls'[c].pc = "saveSent") => Transmits(c)

ClosedHandleFailsFast ==
    \A c \in CommandIds :
        /\ (Transmits(c) /\ ~\E h \in Handles : OpenEntryOf(calls[c].nodeId, h)) => (calls'[c].pc = "saveFailed" /\ outbox' = outbox)
        /\ calls[c].pc = "saveFailed" => calls'[c].pc \in {"saveFailed", "done"}

\* C19: a Command's status becomes `sent` only in the call that handed its
\* frame to a Registry entry of the Command's nodeId whose handle was open at
\* that instant (the frame was written to that handle); a hand-over against an
\* absent or non-open handle returns false in the same step and the call goes
\* on to reject, never to wait.
C19_SentOnlyOverOpenHandle == [][SentOnlyOverOpenHandle /\ ClosedHandleFailsFast]_vars

\* C19 witness: a Command is `sent`, its frame was written, and the
\* connection has closed since.
C19_Witness == \E c \in CommandIds : commands[c].status = "sent" /\ FrameSent(c) /\ calls[c].pc \in {"waiting", "done"} /\ ~Has(connectedNodes, calls[c].nodeId) /\ \A h \in Handles : sockets[h].readyState = "CLOSED"

\* ---- C20
\* every awaited sendCommand that was invoked has settled
AllAwaitedSettled == \A c \in CommandIds : calls[c].pc \in {"idle", "done"}

\* C20: every sendCommand invoked with waitForResponse = true eventually
\* settles, whatever the responses, disconnects and timeouts, given that
\* started saves complete and armed timers fire; and whenever all invoked
\* calls have settled the pending-response table is empty.
C20_AwaitedCallsSettle ==
    /\ [](AllAwaitedSettled => commandCallbacks = {})
    /\ \A c \in CommandIds : (calls[c].pc # "idle" /\ calls[c].wait) ~> (calls[c].pc = "done" /\ calls[c].outcome # "none")

\* C20 witness: all awaited calls were made and have settled, one by its
\* timeout after the connection had closed, and the table is empty.
C20_Witness == (\A c \in CommandIds : calls[c].wait /\ calls[c].pc = "done") /\ (\E c \in CommandIds : calls[c].outcome = "CommandTimedOut") /\ (\E c \in CommandIds : calls[c].outcome \in {"resolved", "rejected"}) /\ commandCallbacks = {} /\ connectedNodes = <<>>

\* ---- C21
CorrelatedByCommandId ==
    \A r \in responses :
        Saves(r) =>
            /\ \A d \in CommandIds \ {r.commandId} :
                /\ calls'[d] = calls[d]
                /\ commands'[d] = commands[d]
                /\ timers'[d] = timers[d]
                /\ (d \in commandCallbacks' <=> d \in commandCallbacks)
            /\ r.commandId \in commandCallbacks =>
                /\ calls'[r.commandId].pc = "done"
                /\ calls'[r.commandId].outcome = (IF r.success THEN "resolved" ELSE "rejected")
                /\ calls'[r.commandId].value = r.payload
                /\ r.commandId \notin commandCallbacks'

\* C21: the step that stores a command_response for commandId c settles the
\* caller that holds the slot of c with that response, and leaves every other
\* caller, slot, timer and Command record as it was, whichever of several
\* commands in flight is answered first.
C21_CorrelatedByCommandId == [][CorrelatedByCommandId]_vars

\* C21 witness: two awaited commands to the same node; the second was answered
\* and resolved while the first, sent earlier, is still waiting with its slot.
C21_Witness == calls[1].pc = "waiting" /\ 1 \in commandCallbacks /\ calls[2].wait /\ calls[2].outcome = "resolved" /\ calls[2].nodeId = calls[1].nodeId /\ commands[1].status = "sent" /\ commands[2].status = "successful"

\* ---- C22
\* the handler of response r ends in this step on a failed lookup or save
ResponseStoreFails(r) == ResponseFindFails(r) \/ ResponseSaveFails(r)

FailedStoreStillSettles ==
    \A r \in responses :
        (ResponseStoreFails(r) /\ r.commandId \in commandCallbacks) =>
            /\ r.commandId \notin commandCallbacks'
            /\ calls'[r.commandId].pc = "done"
            /\ calls'[r.commandId].outcome = (IF r.success THEN "resolved" ELSE "rejected")

\* a NodeRecord update that fails leaves the Registry as the issuing step
\* made it
FailedUpdateKeepsRegistry == FailNodeOp => UNCHANGED <<connectedNodes, sockets>>

\* C22: a lookup or save of the Command that fails while a command_response
\* is handled still settles the caller holding the slot with the response,
\* and a NodeRecord update that fails leaves the Registry entry installed or
\* removed as the connect, close or eviction made it.
C22_StoreFailureKeepsTransition == [][FailedStoreStillSettles /\ FailedUpdateKeepsRegistry]_vars

\* ---- C23
\* the connection side of the state: the ws objects, what was written to
\* them, and the nodeId and handle of every Registry entry
ConnectionsKept ==
    /\ UNCHANGED <<sockets, outbox>>
    /\ Len(connectedNodes') = Len(connectedNodes)
    /\ \A i \in 1..Len(connectedNodes) : connectedNodes'[i].nodeId = connectedNodes[i].nodeId /\ connectedNodes'[i].ws = connectedNodes[i].ws

UnknownResponseIgnored ==
    /\ \A r \in responses :
        (r.pc = "find" /\ r \notin responses' /\ commands[r.commandId].status = "none") =>
            /\ responses' = responses \ {r}
            /\ UNCHANGED <<commands, cmdOps, calls, timers, commandCallbacks>>
            /\ ConnectionsKept
    /\ \A r \in responses' \ responses :
        (r.pc = "find" /\ commands[r.commandId].status = "none") =>
            /\ UNCHANGED <<commands, cmdOps, calls, timers, commandCallbacks>>
            /\ ConnectionsKept
    /\ \A h \in Handles :
        RecvInvalidResponse(h) =>
            /\ UNCHANGED <<commands, cmdOps, calls, timers, commandCallbacks, responses>>
            /\ ConnectionsKept

\* a Command record exists only once sendCommand has stored it
NoRecordFromResponse == \A c \in CommandIds : (calls[c].pc \in {"idle", "savePending"} \/ calls[c].outcome = "NodeNotConnected") => commands[c] = NoCommand

\* C23: a command_response that carries no commandId, or one whose commandId
\* has no Command record, changes no Command record, caller, timer or slot,
\* writes nothing to any ws and leaves the ws and the Registry entries in
\* place, both when it is received and when its lookup answers; no Command
\* record ever comes from a response.
C23_UnknownResponseIgnored == []NoRecordFromResponse /\ [][UnknownResponseIgnored]_vars

\* C23 witness: a response for a commandId without a record is at its lookup
\* while another command waits with its slot on the open connection.
C23_Witness == \E r \in responses : r.pc = "find" /\ commands[r.commandId].status = "none" /\ commandCallbacks # {} /\ \E i \in 1..Len(connectedNodes) : sockets[connectedNodes[i].ws].readyState = "OPEN"

\* ---- C24
NonWaitingReturns ==
    \A c \in CommandIds :
        (calls[c].pc = "saveSent" /\ ~calls[c].wait /\ calls'[c].pc # "saveSent") =>
            /\ calls'[c].pc = "done"
            /\ calls'[c].outcome = "returned"
            /\ commands'[c].status = "sent"
            /\ UNCHANGED <<timers, commandCallbacks, cmdOps, outbox>>

NonWaitingResponse ==
    \A r \in responses :
        (Saves(r) /\ ~calls[r.commandId].wait) =>
            /\ commands'[r.commandId].status = (IF r.success THEN "successful" ELSE "failed")
            /\ UNCHANGED <<calls, timers, commandCallbacks, cmdOps, outbox>>

NonWaitingHasNoSlot ==
    \A c \in CommandIds :
        (calls[c].pc # "idle" /\ ~calls[c].wait) =>
            /\ c \notin commandCallbacks
            /\ timers[c] = "none"
            /\ c \notin cmdOps
            /\ commands[c].status # "timeout"
            /\ calls[c].pc # "waiting"

\* C24: a sendCommand with waitForResponse = false returns the Command in the
\* step that stores `sent`; it never has a slot or a timer, its Command is
\* never `timeout`, and a command_response stored for it writes the Command
\* record and changes no caller, slot or timer.
C24_NonWaitingReturnsAtSent == []NonWaitingHasNoSlot /\ [][NonWaitingReturns /\ NonWaitingResponse]_vars

\* C24 witness: a non-waiting call returned its Command and a response for it
\* was stored afterwards.
C24_Witness == \E c \in CommandIds : ~calls[c].wait /\ calls[c].outcome = "returned" /\ commands[c].status = "successful" /\ commands[c].completed /\ timers[c] = "none"

\* ---- C25
\* sendToNode answers false exactly for an absent entry, a handle that is not
\* open, or a write that throws
SendFalseExactly ==
    \A n \in Nodes, writeOk \in BOOLEAN :
        sendToNode(n, writeOk) <=> (writeOk /\ \E h \in Handles : OpenEntryOf(n, h))

\* a send of either kind is made in this step
Sends == (\E c \in CommandIds : Transmits(c)) \/ (\E failing \in SUBSET Handles : RegistryBroadcast(failing))

SendKeepsRegistry == Sends => (connectedNodes' = connectedNodes /\ sockets' = sockets)

\* an entry of the pre-state whose nodeId has no entry in the post-state
Disappears(i) == \A j \in 1..Len(connectedNodes') : connectedNodes'[j].nodeId # connectedNodes[i].nodeId

OnlyCloseOrEvictionRemoves ==
    \A i \in 1..Len(connectedNodes) :
        Disappears(i) =>
            \/ Sweep /\ now - connectedNodes[i].lastSeen > heartbeatTimeout
            \/ \E h \in Handles : CloseEvent(h) /\ sockets[h].nodeId = connectedNodes[i].nodeId

\* C25: sendToNode returns false exactly when the nodeId has no entry, the
\* entry's handle is not open, or the write throws; a sendToNode or a
\* broadcast, whatever it returns, leaves the Registry and the ws objects as
\* they are; and an entry leaves the Registry only in a close handler of its
\* nodeId or in a sweep that finds it expired.
C25_SendLeavesRegistry == []SendFalseExactly /\ [][SendKeepsRegistry /\ OnlyCloseOrEvictionRemoves]_vars

\* C25 witness: a send failed on an entry whose handle is closing, a broadcast
\* was written to another node, and the entry of the failed send is still there.
C25_Witness == \E c \in CommandIds : calls[c].outcome = "CommandSendFailed" /\ Has(connectedNodes, calls[c].nodeId) /\ sockets[MapGet(connectedNodes, calls[c].nodeId).ws].readyState = "CLOSING" /\ \E h \in Handles : BroadcastsWritten(h) > 0

\* ---- C26
\* the ids of the frames of ws h whose handlers were invoked, in the order of
\* the invocations
DispatchedIds(h) == [i \in 1..Len(FramesOf(dispatchLog, h)) |-> FramesOf(dispatchLog, h)[i].id]

\* C26: on every connection the handlers are invoked in the order in which
\* the agent sent the frames: the k-th invocation is for the k-th frame, and
\* the frames not yet delivered are the later ones, in order.
C26_DispatchInArrivalOrder ==
    \A h \in Handles :
        /\ \A i \in 1..Len(DispatchedIds(h)) : DispatchedIds(h)[i] = i
        /\ \A i \in 1..Len(FramesOf(inbox, h)) : FramesOf(inbox, h)[i].id = Len(DispatchedIds(h)) + i

\* C26 witness: a heartbeat then a pong of one connection were dispatched with
\* a frame of another connection, sent between them, dispatched first.
C26_Witness == Len(dispatchLog) = 3 /\ dispatchLog[1].ws # dispatchLog[2].ws /\ dispatchLog[2].ws = dispatchLog[3].ws /\ dispatchLog[2].type = "heartbeat" /\ dispatchLog[3].type = "pong" /\ dispatchLog[3].id = 2

\* ---- C27
PingOnce ==
    \A h \in Handles :
        /\ Len(outbox[h]) >= 1
        /\ outbox[h][1].type = "ping"
        /\ \A i \in 2..Len(outbox[h]) : outbox[h][i].type # "ping"

PingAtInstall ==
    Len(sockets') = Len(sockets) + 1 =>
        /\ outbox'[Len(sockets')] = <<[type |-> "ping", commandId |-> 0]>>
        /\ \E i \in 1..Len(connectedNodes') : connectedNodes'[i].nodeId = sockets'[Len(sockets')].nodeId /\ connectedNodes'[i].ws = Len(sockets')
        /\ \A i \in 1..Len(dispatchLog') : dispatchLog'[i].ws # Len(sockets')
        /\ \A h \in Handles : outbox'[h] = outbox[h]

\* C27: the step that creates a ws for an accepted upgrade installs the
\* Registry entry with that ws and writes one ping to it, before any frame of
\* the ws has been dispatched and without writing to any other ws; the ping
\* is the first frame of every ws and no later frame written to it is a ping.
C27_OnePingPerConnection == []PingOnce /\ [][PingAtInstall]_vars

\* C27 witness: a ws whose frames were dispatched and to which a broadcast was
\* written after its ping.
C27_Witness == \E h \in Handles : Len(outbox[h]) = 2 /\ outbox[h][2].type = "broadcast" /\ Len(FramesOf(dispatchLog, h)) >= 2

\* ---- C28
TimeoutIsLocal ==
    \A c \in CommandIds :
        (timers[c] = "armed" /\ timers'[c] = "fired") =>
            /\ outbox' = outbox
            /\ sockets' = sockets
            /\ connectedNodes' = connectedNodes
            /\ commandCallbacks' = commandCallbacks \ {c}
            /\ calls'[c].outcome = "CommandTimedOut"
            /\ cmdOps' = cmdOps \cup {c}
            /\ \A d \in CommandIds \ {c} : calls'[d] = calls[d] /\ timers'[d] = timers[d]

TimeoutUpdateIsLocal ==
    \A c \in CommandIds :
        (c \in cmdOps /\ c \notin cmdOps') =>
            /\ outbox' = outbox
            /\ sockets' = sockets
            /\ connectedNodes' = connectedNodes
            /\ \A d \in CommandIds \ {c} : commands'[d] = commands[d]

\* C28: the step in which the timer of a command fires writes no frame to any
\* ws and leaves every ws and the Registry as they are; it removes the slot
\* of that command, rejects its caller and issues the update of its Command,
\* and the step that applies the update changes that Command only.
C28_TimeoutIsLocal == [][TimeoutIsLocal /\ TimeoutUpdateIsLocal]_vars

\* C28 witness: a command has timed out and its record says so, while its
\* node is still connected on the ws that holds the ping and the command
\* frame and nothing else.
C28_Witness == \E c \in CommandIds, h \in Handles : timers[c] = "fired" /\ commands[c].status = "timeout" /\ OpenEntryOf(calls[c].nodeId, h) /\ outbox[h] = <<[type |-> "ping", commandId |-> 0], [type |-> "command", commandId |-> c]>>

\* ---- C29
SupersededCloseKeeps ==
    \A h1, h2 \in Handles :
        (h1 < h2 /\ sockets[h1].nodeId = sockets[h2].nodeId /\ OpenEntryOf(sockets[h2].nodeId, h2) /\ sockets[h1].readyState # "CLOSED" /\ sockets'[h1].readyState = "CLOSED") =>
            /\ connectedNodes' = connectedNodes
            /\ sockets'[h2] = sockets[h2]

\* C29: when the entry of a nodeId holds the open ws h2 of a later upgrade,
\* the close of the earlier ws h1 of the same nodeId leaves the Registry and
\* h2 as they are, so the node stays connected on h2.
C29_SupersededCloseKeepsEntry == [][SupersededCloseKeeps]_vars

\* ---- C30
EvictedAtFirstSweep ==
    \A i \in 1..Len(connectedNodes) :
        /\ now - connectedNodes[i].lastSeen > heartbeatTimeout => sweepDue
        /\ now - connectedNodes[i].lastSeen <= heartbeatTimeout + heartbeatInterval

ScheduledSweepEvicts ==
    (sweepDue /\ ~sweepDue') =>
        \A i \in 1..Len(connectedNodes) :
            IF now - connectedNodes[i].lastSeen > heartbeatTimeout
            THEN Removed(connectedNodes[i]) /\ sockets'[connectedNodes[i].ws].readyState # "OPEN"
            ELSE \E j \in 1..Len(connectedNodes') : connectedNodes'[j] = connectedNodes[i]

\* C30: with the sweep keeping its schedule, an entry whose now - lastSeen
\* exceeds the heartbeat timeout is in the Registry only until the sweep that
\* is due at that instant has run, and that sweep removes it and closes its
\* ws while keeping the entries that have not expired; so the lastSeen of an
\* entry is never older than heartbeat timeout + heartbeat interval.
C30_EvictedWithinTimeoutPlusPeriod == []EvictedAtFirstSweep /\ [][ScheduledSweepEvicts]_vars

\* C30 witness: a silent connection was evicted by the sweep that ran exactly
\* heartbeat timeout + heartbeat interval after its last activity, after
\* earlier sweeps had kept it.
C30_Witness == ~sweepDue /\ \E h \in Handles : sockets[h].closeCode = 1001 /\ ~Has(connectedNodes, sockets[h].nodeId) /\ [nodeId |-> sockets[h].nodeId, lastSeen |-> now - heartbeatTimeout - heartbeatInterval] \in timeoutLog /\ now - heartbeatTimeout - heartbeatInterval > 0

\* ---- C31
OwnerCloseRemoves ==
    \A h \in Handles :
        (sockets[h].readyState # "CLOSED" /\ sockets'[h].readyState = "CLOSED" /\ \E i \in 1..Len(connectedNodes) : connectedNodes[i].nodeId = sockets[h].nodeId /\ connectedNodes[i].ws = h) =>
            /\ ~Has(connectedNodes', sockets[h].nodeId)
            /\ Len(nodeOps') = Len(nodeOps) + 1
            /\ nodeOps'[Len(nodeOps')].nodeId = sockets[h].nodeId
            /\ nodeOps'[Len(nodeOps')].status = "offline"

EntryOnlyByUpgrade ==
    \A n \in Nodes :
        (~Has(connectedNodes, n) /\ Has(connectedNodes', n)) =>
            (Len(sockets') = Len(sockets) + 1 /\ sockets'[Len(sockets')].nodeId = n)

AbsentNodeRejects ==
    \A c \in CommandIds :
        (calls[c].pc = "idle" /\ calls'[c].pc # "idle" /\ ~Has(connectedNodes, calls'[c].nodeId)) =>
            (calls'[c].pc = "done" /\ calls'[c].outcome = "NodeNotConnected" /\ commands' = commands /\ outbox' = outbox)

AbsentNotConnected == \A n \in Nodes : ~Has(connectedNodes, n) => ~isNodeConnected(n)

\* C31: the close event of the ws that the entry of its nodeId holds removes
\* the entry and issues the update marking the NodeRecord offline; a nodeId
\* without an entry is not connected, a sendCommand for it throws the
\* not-connected error without storing or sending anything, and its entry
\* comes back only in the step of a new upgrade for that nodeId.
C31_OwnerCloseDisconnects == []AbsentNotConnected /\ [][OwnerCloseRemoves /\ EntryOnlyByUpgrade /\ AbsentNodeRejects]_vars

\* C31 witness: the ws of a node closed while it owned the entry, a
\* sendCommand for the node was rejected as not connected, and a new upgrade
\* has brought the node back, its record online again.
C31_Witness == \E h1, h2 \in Handles, c \in CommandIds : h1 < h2 /\ sockets[h1].nodeId = sockets[h2].nodeId /\ sockets[h1].readyState = "CLOSED" /\ calls[c].nodeId = sockets[h1].nodeId /\ calls[c].outcome = "NodeNotConnected" /\ OpenEntryOf(sockets[h2].nodeId, h2) /\ nodeDb[sockets[h1].nodeId].status = "online" /\ nodeOps = <<>>

\* ---- C32
\* The Registry holds an entry for n whose ws is open.
RegistryOpen(n) == \E i \in 1..Len(connectedNodes) : connectedNodes[i].nodeId = n /\ sockets[connectedNodes[i].ws].readyState = "OPEN"

CheckByRegistry ==
    \A c \in CommandIds :
        (calls[c].pc = "idle" /\ calls'[c].pc # "idle") =>
            (calls'[c].outcome = "NodeNotConnected" <=> ~RegistryOpen(calls'[c].nodeId))

FramesByRegistry ==
    \A c \in CommandIds :
        Transmits(c) =>
            /\ calls'[c].pc = "saveSent" <=> FrameSent(c)'
            /\ calls'[c].pc = "saveSent" => RegistryOpen(calls[c].nodeId)
            /\ \A h \in Handles : outbox'[h] # outbox[h] => (OpenEntryOf(calls[c].nodeId, h) /\ outbox'[h] = Append(outbox[h], CommandFrame(c)))

MembersByRegistry ==
    (broadcast.pc = "idle" /\ broadcast'.pc # "idle") =>
        /\ Len(broadcast'.members) = Len(connectedNodes)
        /\ \A i \in 1..Len(connectedNodes) : calls'[broadcast'.members[i]].nodeId = connectedNodes[i].nodeId

ListByRegistry ==
    /\ \A n \in Nodes : isNodeConnected(n) <=> RegistryOpen(n)
    /\ Len(getConnectedNodes) = Len(connectedNodes)
    /\ \A i \in 1..Len(connectedNodes) : getConnectedNodes[i] = [nodeId |-> connectedNodes[i].nodeId, lastSeen |-> connectedNodes[i].lastSeen, connected |-> sockets[connectedNodes[i].ws].readyState = "OPEN"]

\* C32: whatever the Node collection holds, isNodeConnected and
\* getConnectedNodes are functions of the Registry and its handles alone, a
\* sendCommand throws the not-connected error exactly when the Registry has
\* no open entry for the node, its frame is written to the ws of that entry
\* and to no other, and a broadcastCommand issues one sendCommand per
\* Registry entry.
C32_RoutingByRegistryOnly == []ListByRegistry /\ [][CheckByRegistry /\ FramesByRegistry /\ MembersByRegistry]_vars

\* C32 witness: a command frame was written for a node that has no stored
\* record, and a sendCommand was rejected as not connected for a node whose
\* stored record says online, with no update in flight.
C32_Witness == nodeOps = <<>> /\ \E c, d \in CommandIds : FrameSent(c) /\ nodeDb[calls[c].nodeId].status = "none" /\ calls[d].outcome = "NodeNotConnected" /\ nodeDb[calls[d].nodeId].status = "online"

\* ---- C33
\* Every handler has returned and every store operation has been applied.
Quiescent == responses = {} /\ cmdOps = {} /\ \A c \in CommandIds : calls[c].pc \in {"idle", "done"}

OutcomeAgreesWithStatus ==
    \A c \in CommandIds :
        (calls[c].wait /\ calls[c].settles > 0) =>
            /\ calls[c].outcome = "CommandTimedOut" <=> commands[c].status = "timeout"
            /\ calls[c].outcome = "resolved" <=> commands[c].status = "successful"
            /\ calls[c].outcome = "rejected" <=> commands[c].status = "failed"

\* C33: once every handler has returned and every store operation has been
\* applied, the caller of an awaited command was rejected with the timed-out
\* error exactly when the stored status is `timeout`, resolved exactly when
\* it is `successful`, and rejected with the agent's error exactly when it
\* is `failed`.
C33_OutcomeAgreesWithFinalStatus == Quiescent => OutcomeAgreesWithStatus

\* ---- C34
ForeignResponseIgnored ==
    \A r \in responses :
        (Saves(r) /\ r.nodeId # commands[r.commandId].nodeId) =>
            /\ commands'[r.commandId] = commands[r.commandId]
            /\ calls'[r.commandId] = calls[r.commandId]
            /\ commandCallbacks' = commandCallbacks
            /\ timers' = timers

\* C34: when the handler of a command_response that was received on the
\* connection of a node other than the one the Command is addressed to
\* finishes, the Command record, its caller, its pending-response slot and
\* its timer are what they were.
C34_ForeignResponseIgnored == [][ForeignResponseIgnored]_vars

\* ---- C35
\* No update of the Node collection is in flight and no ws is between its
\* close frame and its close event.
Settled == nodeOps = <<>> /\ \A h \in Handles : sockets[h].readyState # "CLOSING"

\* C35: with no update in flight and no close pending, the stored record of
\* a node that has one says offline exactly when the Registry has no entry
\* for the node.
C35_RecordAgreesWithRegistry == Settled => \A n \in Nodes : nodeDb[n].status # "none" => (nodeDb[n].status = "offline" <=> ~Has(connectedNodes, n))

\* ---- C36
TouchOnlyByOwner ==
    \A i \in 1..Len(connectedNodes), j \in 1..Len(connectedNodes') :
        (connectedNodes'[j].nodeId = connectedNodes[i].nodeId /\ connectedNodes'[j].ws = connectedNodes[i].ws /\ connectedNodes'[j].lastSeen # connectedNodes[i].lastSeen) =>
            /\ Len(dispatchLog') = Len(dispatchLog) + 1
            /\ dispatchLog'[Len(dispatchLog')].ws = connectedNodes[i].ws

\* C36: the lastSeen of a Registry entry changes only in a step that
\* dispatches a frame received on the ws the entry holds.
C36_TouchOnlyByOwner == [][TouchOnlyByOwner]_vars

\* ---- C37
\* a ws emits its close event or the sweep removes an entry in this step
Disconnects ==
    \/ \E h \in Handles : sockets[h].readyState # "CLOSED" /\ sockets'[h].readyState = "CLOSED"
    \/ \E i \in 1..Len(connectedNodes) : Removed(connectedNodes[i])
    \/ \E h \in Handles : sockets[h].closeCode # 1001 /\ sockets'[h].closeCode = 1001

DisconnectKeepsPending == Disconnects => UNCHANGED <<commandCallbacks, calls, timers, commands, cmdOps>>

DisconnectedStillArmed ==
    \A c \in CommandIds :
        (c \in commandCallbacks /\ NoOpenEntry(calls[c].nodeId)) =>
            (timers[c] = "armed" /\ calls[c].pc = "waiting" /\ calls[c].settles = 0)

DisconnectedTimesOut ==
    \A c \in CommandIds :
        (c \in commandCallbacks /\ NoOpenEntry(calls[c].nodeId) /\ timers'[c] = "fired") =>
            (calls'[c].outcome = "CommandTimedOut" /\ c \notin commandCallbacks' /\ c \in cmdOps')

SlotsAreLivePending ==
    \A c \in CommandIds :
        c \in commandCallbacks =>
            /\ calls[c].wait
            /\ calls[c].pc = "waiting"
            /\ calls[c].settles = 0
            /\ timers[c] = "armed"
            /\ FrameSent(c)
            /\ commands[c].status # "none"

NoSlotOtherwise ==
    \A c \in CommandIds :
        (calls[c].outcome = "CommandSendFailed" \/ calls[c].outcome = "NodeNotConnected" \/ ~calls[c].wait \/ calls[c].settles > 0 \/ timers[c] \in {"fired", "cleared"}) =>
            c \notin commandCallbacks

\* C38: in every reachable state a slot of the pending-response table
\* belongs to a waiting call whose frame was written, whose caller is not
\* settled and whose timer is armed; a call whose transmission failed, a
\* non-waiting call and a settled call have no slot.
C38_SlotsArePendingAwaited == SlotsAreLivePending /\ NoSlotOtherwise

\* C38 witness: one awaited command holds its slot with the timer armed
\* while another was settled by its response and a slot is left for the
\* first only.
C38_Witness == \E c, d \in CommandIds : c # d /\ commandCallbacks = {c} /\ timers[c] = "armed" /\ calls[d].wait /\ calls[d].settles = 1 /\ timers[d] = "cleared"
====
